---- MODULE Spec2Model ----
(***************************************************************************)
(* Model of the video backend (src/index.js): an Express application with  *)
(* a middleware stack (JSON body parser, logger, static files, API-key     *)
(* check) and six POST job handlers that download remote media, run        *)
(* ffmpeg / ffprobe and publish the result under /files.                   *)
(*                                                                         *)
(* Strings are sequences of tokens.  A token is either one of the special  *)
(* characters "/", ".", "-", ":", "'" or an indivisible chunk of text that *)
(* contains none of them.  JavaScript values are records [t, s, n].        *)
(***************************************************************************)
EXTENDS Integers, Sequences, FiniteSets, TLC

\* ------------------------------------------------------------------------
\* Bounds of the model
\* ------------------------------------------------------------------------
\* number of distinct values crypto.randomBytes(8) can return in the model
NumIds == 2
\* longest video_urls array submitted to /v1/video/concatenate
MaxUrls == 2
\* sub-second resolution of the durations ffprobe reports (units per second)
Scale == 2
\* longest file extension, in characters after the dot, of a URL with quotes
MaxExt == 3

Jobs == {1, 2}

\* ------------------------------------------------------------------------
\* Strings and numbers
\* ------------------------------------------------------------------------
Digits == <<"0", "1", "2", "3", "4", "5", "6", "7", "8", "9">>

DigitVal(c) == (CHOOSE i \in 1..Len(Digits) : Digits[i] = c) - 1

IsDigit(c) == \E i \in 1..Len(Digits) : Digits[i] = c

RECURSIVE NatToStr(_)
NatToStr(n) ==
  IF n < Len(Digits) THEN <<Digits[n + 1]>>
  ELSE NatToStr(n \div Len(Digits)) \o <<Digits[(n % Len(Digits)) + 1]>>

\* String(n) for an integer n
NumToStr(n) == IF n < 0 THEN <<"-">> \o NatToStr(-n) ELSE NatToStr(n)

RECURSIVE StrToNat(_)
StrToNat(s) ==
  IF s = <<>> THEN 0
  ELSE StrToNat(SubSeq(s, 1, Len(s) - 1)) * Len(Digits) + DigitVal(s[Len(s)])

\* the % operator of JavaScript: the result has the sign of the dividend
JsRem(a, b) == IF a >= 0 THEN a % b ELSE -((-a) % b)

\* String.prototype.padStart(2, '0')
PadStart2(s) == IF Len(s) >= 2 THEN s ELSE IF Len(s) = 1 THEN <<"0">> \o s ELSE <<"0", "0">>

RECURSIVE Split(_, _)
\* s.split(sep) for a one-token separator
Split(s, sep) ==
  IF \A i \in 1..Len(s) : s[i] # sep THEN <<s>>
  ELSE LET k == CHOOSE i \in 1..Len(s) : s[i] = sep /\ \A m \in 1..(i - 1) : s[m] # sep
       IN  <<SubSeq(s, 1, k - 1)>> \o Split(SubSeq(s, k + 1, Len(s)), sep)

IsPrefix(p, s) == Len(p) <= Len(s) /\ SubSeq(s, 1, Len(p)) = p

\* ------------------------------------------------------------------------
\* path module: a directory is a sequence of segments
\* ------------------------------------------------------------------------
RECURSIVE Normalize(_, _)
Normalize(segs, acc) ==
  IF segs = <<>> THEN acc
  ELSE LET h == Head(segs) IN
       IF h = <<>> \/ h = <<".">> THEN Normalize(Tail(segs), acc)
       ELSE IF h = <<".", ".">>
            THEN Normalize(Tail(segs), IF acc = <<>> THEN acc ELSE SubSeq(acc, 1, Len(acc) - 1))
            ELSE Normalize(Tail(segs), Append(acc, h))

\* path.join(dir, name): concatenate with "/" and normalise "." and ".."
PathJoin(dir, name) == Normalize(dir \o Split(name, "/"), <<>>)

\* path.extname(p): from the last "." of the last segment, unless that "."
\* starts the segment
ExtName(p) ==
  LET parts == Split(p, "/")
      base  == parts[Len(parts)]
      dots  == {i \in 1..Len(base) : base[i] = "."}
  IN  IF dots = {} THEN <<>>
      ELSE LET k == CHOOSE i \in dots : \A m \in dots : m <= i
           IN  IF k = 1 \/ (\A i \in 1..Len(base) : base[i] = ".") THEN <<>>
               ELSE SubSeq(base, k, Len(base))

AppDir == <<<<"app">>>>
PUBLIC_DIR == PathJoin(AppDir, <<"public">>)
TMP_DIR == PathJoin(AppDir, <<"tmp">>)
API_KEY == "local-dev-key-123"

\* ------------------------------------------------------------------------
\* JavaScript values carried by a JSON body
\* ------------------------------------------------------------------------
Undef == [t |-> "undef", s |-> <<>>, n |-> 0]
JNull == [t |-> "null", s |-> <<>>, n |-> 0]
JStr(s) == [t |-> "str", s |-> s, n |-> 0]
JNum(n) == [t |-> "num", s |-> <<>>, n |-> n]
\* an object whose url field (file_url / video_url) is the string s
JObj(s) == [t |-> "obj", s |-> s, n |-> 0]
\* an object without the url field
JObjNoField == [t |-> "obj0", s |-> <<>>, n |-> 0]

Truthy(v) ==
  \/ v.t = "str" /\ v.s # <<>>
  \/ v.t = "num" /\ v.n # 0
  \/ v.t \in {"obj", "obj0"}

\* reading a property of null or undefined throws a TypeError
PropThrows(v) == v.t \in {"null", "undef"}

\* v.file_url, v.video_url
UrlProp(v) == IF v.t = "obj" THEN JStr(v.s) ELSE Undef

\* String(v), the conversion new URL(v) applies to its argument
ToStr(v) ==
  CASE v.t = "str" -> v.s
    [] v.t = "num" -> NumToStr(v.n)
    [] v.t \in {"obj", "obj0"} -> <<"[object Object]">>
    [] OTHER -> <<v.t>>

\* Number(v) || dflt
NumberOr(v, dflt) == IF v.t = "num" /\ v.n # 0 THEN v.n ELSE dflt

Origin == "http://media.example"

\* new URL(s) throws unless s is an absolute URL
UrlParses(s) == Len(s) >= 1 /\ s[1] = Origin

\* new URL(s).pathname
UrlPathname(s) == IF Len(s) = 1 THEN <<"/">> ELSE Tail(s)


\* ------------------------------------------------------------------------
\* Requests
\* ------------------------------------------------------------------------
RouteRoot == <<"/">>
RouteImage == <<"/", "v1", "/", "image", "/", "convert", "/", "video">>
RouteMetadata == <<"/", "v1", "/", "media", "/", "metadata">>
RouteTrim == <<"/", "v1", "/", "video", "/", "trim">>
RouteCompose == <<"/", "v1", "/", "ffmpeg", "/", "compose">>
RouteConcat == <<"/", "v1", "/", "video", "/", "concatenate">>
RouteCaption == <<"/", "v1", "/", "video", "/", "caption">>
FilesMount == <<"/", "files">>

JobRoutes == {RouteImage, RouteMetadata, RouteTrim, RouteCompose, RouteConcat, RouteCaption}
TransformRoutes == {RouteImage, RouteTrim, RouteCompose, RouteConcat}

NotArray == [arr |-> FALSE, items |-> <<>>]
JArray(items) == [arr |-> TRUE, items |-> items]

EmptyBody ==
  [image_url |-> Undef, media_url |-> Undef, video_url |-> Undef,
   inputs |-> NotArray, video_urls |-> NotArray, id |-> Undef,
   length |-> Undef, frame_rate |-> Undef, zoom_speed |-> Undef,
   start |-> Undef, end |-> Undef]

\* the x-api-key header is absent
NoHeader == "<no header>"
Keys == {NoHeader, API_KEY, "wrong-key"}

Request(method, path, key, json, body) ==
  [method |-> method, path |-> path, key |-> key, json |-> json, body |-> body,
   fproto |-> "https", fhost |-> "", protocol |-> "http", host |-> "backend:8080"]

NoReq == Request("NONE", <<>>, NoHeader, "ok", EmptyBody)

UrlA == <<Origin, "/", "a", ".", "mp4">>
UrlB == <<Origin, "/", "b">>
BadUrl == <<"not a url">>

UrlValues == {Undef, JStr(<<>>), JStr(UrlA), JStr(UrlB), JStr(BadUrl), JNum(5)}
IdTraversal == <<"x", "/", ".", ".", "/", ".", ".", "/", "y">>
IdValues == {Undef, JStr(<<"x">>), JStr(<<"a", "/", "b">>), JStr(IdTraversal)}
Entries == {JNull, JStr(<<>>), JStr(UrlA), JNum(5), JObj(UrlB), JObjNoField}
InputEntries == {JNull, JStr(UrlA), JNum(5), JObj(UrlA), JObj(UrlB), JObj(<<>>), JObjNoField}

SeqsUpTo(S, n) == UNION {[1..k -> S] : k \in 0..n}

\* URLs whose path ends in an extension made of letters and single quotes;
\* new URL() leaves a single quote of the path as it is
QuoteUrls ==
  {<<Origin, "/", "q", ".">> \o e : e \in SeqsUpTo({"'", "m"}, MaxExt) \ {<<>>}}

ImageBodies ==
  {[EmptyBody EXCEPT !.image_url = u, !.id = i] : u \in UrlValues, i \in {Undef, JStr(<<"x">>)}}
MetadataBodies == {[EmptyBody EXCEPT !.media_url = u] : u \in UrlValues}
TrimBodies ==
  {[EmptyBody EXCEPT !.video_url = u, !.start = s, !.end = e] :
     u \in UrlValues, s \in {Undef}, e \in {Undef, JStr(<<"00", ":", "00", ":", "10">>)}}
ComposeBodies ==
  {[EmptyBody EXCEPT !.inputs = a] :
     a \in {NotArray} \cup {JArray(x) : x \in SeqsUpTo(InputEntries, 2)}}
ConcatBodies ==
  {[EmptyBody EXCEPT !.video_urls = a] :
     a \in {NotArray} \cup {JArray(x) : x \in SeqsUpTo(Entries, MaxUrls)}}
  \cup {[EmptyBody EXCEPT !.video_urls = JArray(<<JStr(UrlA)>>), !.id = i] : i \in IdValues}
  \cup {[EmptyBody EXCEPT !.video_urls = JArray(<<JStr(u)>>)] : u \in QuoteUrls}
CaptionBodies ==
  {[EmptyBody EXCEPT !.video_url = u, !.id = i] :
     u \in {Undef, JStr(UrlA)}, i \in {Undef, JNull, JStr(<<"x">>), JNum(7), JNum(0)}}

BodiesOf(route) ==
  CASE route = RouteImage -> ImageBodies
    [] route = RouteMetadata -> MetadataBodies
    [] route = RouteTrim -> TrimBodies
    [] route = RouteCompose -> ComposeBodies
    [] route = RouteConcat -> ConcatBodies
    [] route = RouteCaption -> CaptionBodies

\* a body that passes the validation of its route
GoodBody(route) ==
  CASE route = RouteImage -> [EmptyBody EXCEPT !.image_url = JStr(UrlA)]
    [] route = RouteMetadata -> [EmptyBody EXCEPT !.media_url = JStr(UrlA)]
    [] route = RouteTrim -> [EmptyBody EXCEPT !.video_url = JStr(UrlA)]
    [] route = RouteCompose -> [EmptyBody EXCEPT !.inputs = JArray(<<JObj(UrlA), JObj(UrlB)>>)]
    [] route = RouteConcat -> [EmptyBody EXCEPT !.video_urls = JArray(<<JStr(UrlA)>>)]
    [] route = RouteCaption -> [EmptyBody EXCEPT !.video_url = JStr(UrlA)]

\* POST requests to the job endpoints: every body with the right key and a
\* well-formed JSON text, one body with every other key / JSON combination
JobRequests ==
  UNION {{Request("POST", r, API_KEY, "ok", b) : b \in BodiesOf(r)} : r \in JobRoutes}
  \cup {Request("POST", r, k, j, GoodBody(r)) :
          r \in JobRoutes, k \in Keys, j \in {"ok", "malformed"}}

\* ------------------------------------------------------------------------
\* State
\* ------------------------------------------------------------------------
VARIABLES
  req,      \* req[j]: the request job j handles
  job,      \* job[j]: the handler's local state and the response(s) it sent
  files,    \* the paths that exist on disk
  crashed,  \* the process ended on an uncaught exception
  getResp   \* outcome of the latest GET request

vars == <<req, job, files, crashed, getResp>>


\* ------------------------------------------------------------------------
\* Middleware stack (app.use order) and routing
\* ------------------------------------------------------------------------
UnderFiles(path) == path = FilesMount \/ IsPrefix(FilesMount \o <<"/">>, path)

\* the file express.static looks up for a request path under the mount;
\* <<>> when the path holds a ".." segment, which it refuses
StaticTarget(path) ==
  LET rest == SubSeq(path, Len(FilesMount) + 1, Len(path))
      segs == Split(rest, "/")
  IN  IF \E i \in 1..Len(segs) : segs[i] = <<".", ".">> THEN <<>>
      ELSE PathJoin(PUBLIC_DIR, rest)

StaticServes(r, fs) ==
  /\ r.method = "GET"
  /\ UnderFiles(r.path)
  /\ StaticTarget(r.path) # <<>>
  /\ StaticTarget(r.path) \in fs

\* if (!key || key !== API_KEY)
Unauthorized(key) == key = NoHeader \/ key = "" \/ key # API_KEY

RouteMatches(r) ==
  \/ r.method = "POST" /\ r.path \in JobRoutes
  \/ r.method = "GET" /\ r.path = RouteRoot

MiddlewareStackAuthFirst == <<"json", "morgan", "apikey", "static", "router">>

MiddlewareStack == <<"json", "morgan", "static", "apikey", "router">>

Outcome(by, status, ran) == [by |-> by, status |-> status, ran |-> ran]

RECURSIVE RunStack(_, _, _, _, _)
\* runs the middlewares from position i on; "by" names the one that answered,
\* "handler" when the request reached a route handler
RunStack(stack, i, r, fs, ran) ==
  IF i > Len(stack) THEN Outcome("none", 404, ran)
  ELSE LET m == stack[i]
           ran2 == Append(ran, m)
           next == RunStack(stack, i + 1, r, fs, ran2)
       IN  CASE m = "json" ->
                  IF r.json = "malformed" THEN Outcome("json", 400, ran2) ELSE next
             [] m = "static" ->
                  IF StaticServes(r, fs) THEN Outcome("static", 200, ran2) ELSE next
             [] m = "apikey" ->
                  IF Unauthorized(r.key) THEN Outcome("apikey", 401, ran2) ELSE next
             [] m = "router" ->
                  IF RouteMatches(r) THEN Outcome("handler", 0, ran2)
                  ELSE Outcome("router", 404, ran2)
             [] OTHER -> next

Dispatch(r, fs) == RunStack(MiddlewareStack, 1, r, fs, <<>>)

\* ------------------------------------------------------------------------
\* Responses and the handler's local state
\* ------------------------------------------------------------------------
Resp(status, kind, by) ==
  [status |-> status, kind |-> kind, by |-> by, url |-> <<>>, id |-> Undef,
   error |-> "", duration |-> 0, nan |-> FALSE, formatted |-> <<>>]

ErrorResp(status, by, msg) == [Resp(status, "error", by) EXCEPT !.error = msg]

NoOut == [abs |-> <<>>, rel |-> <<>>]
NoIo == [fetches |-> 0, temps |-> 0, outs |-> 0, engines |-> 0, writes |-> 0]

IdleJob ==
  [pc |-> "idle", idx |-> 0, localPaths |-> <<>>, cur |-> <<>>, listPath |-> <<>>,
   listContent |-> <<>>, out |-> NoOut, args |-> <<>>, resp |-> <<>>,
   engine |-> "none", io |-> NoIo,
   curId |-> "", localIds |-> <<>>, outId |-> "", listId |-> "", fault |-> "none",
   curUrl |-> <<>>, localUrls |-> <<>>, log |-> <<>>]

NewJob == [IdleJob EXCEPT !.pc = "new"]

\* the job's steps in the order the handler starts and completes them
Log(jr, events) == [jr EXCEPT !.log = @ \o events]

\* res.status(..).json(..) followed by the handler's return
Send(jr, resp) ==
  [jr EXCEPT !.pc = "done", !.resp = Append(@, resp), !.log = Append(@, "respond")]

\* an exception or a rejected await inside the handler's try block
Throw(jr) == [jr EXCEPT !.pc = "throw"]

\* a failure of the environment (network, disk, child process) reaches job jr
Fault(jr, what) == [jr EXCEPT !.fault = what]

CatchMessage(route) ==
  CASE route = RouteImage -> "Failed to create video from image"
    [] route = RouteMetadata -> "Failed to get media metadata"
    [] route = RouteTrim -> "Failed to trim video"
    [] route = RouteCompose -> "Failed to compose audio+video"
    [] route = RouteConcat -> "Failed to concatenate videos"
    [] route = RouteCaption -> "Failed in caption stub"

\* try { ... } catch (err) { res.status(500).json({error: ...}) }
TryCatch(r, jr) ==
  IF jr.pc = "throw" THEN Send(jr, ErrorResp(500, "handler", CatchMessage(r.path))) ELSE jr

\* `${proto}://${host}`
GetBaseUrl(r) ==
  LET proto == IF r.fproto # "" THEN r.fproto ELSE r.protocol
      host == IF r.fhost # "" THEN r.fhost ELSE r.host
  IN  <<proto, "://", host>>

RECURSIVE PathStr(_)
\* an absolute path as a string
PathStr(segs) == IF segs = <<>> THEN <<>> ELSE <<"/">> \o Head(segs) \o PathStr(Tail(segs))

Ids == {ToString(i) : i \in 1..NumIds}
Mp4 == <<".", "mp4">>

\* downloadToTemp up to its first await: draws the id, parses the URL,
\* opens the write stream and starts the GET
DownloadToTemp(jr, url, prefix, id) ==
  LET s == ToStr(url) IN
  IF ~UrlParses(s) THEN Throw(Log(jr, <<"fetch", "fetchRejected">>))
  ELSE LET e == ExtName(UrlPathname(s))
           ext == IF e # <<>> THEN e ELSE <<".", "bin">>
           tempPath == PathJoin(TMP_DIR, prefix \o <<"-", id>> \o ext)
       IN  [jr EXCEPT !.pc = "fetch", !.cur = tempPath, !.curId = id, !.curUrl = s,
                      !.io.temps = @ + 1, !.io.fetches = @ + 1,
                      !.log = Append(@, "fetch")]

\* the public path without the random id: two jobs with one prefix share it
MakePublicPathNoId(prefix, ext, id) ==
  LET fileName == prefix \o ext
  IN  [abs |-> PathJoin(PUBLIC_DIR, fileName), rel |-> FilesMount \o <<"/">> \o fileName]

MakePublicPath(prefix, ext, id) ==
  LET fileName == prefix \o <<"-", id>> \o ext
  IN  [abs |-> PathJoin(PUBLIC_DIR, fileName), rel |-> FilesMount \o <<"/">> \o fileName]

\* runFfmpeg(args) without its await: the handler answers at once
StartEngineNoAwait(jr, out, args, id) ==
  Send([jr EXCEPT !.out = out, !.args = args, !.outId = id, !.engine = "ok",
                  !.io.outs = @ + 1, !.io.engines = @ + 1,
                  !.log = @ \o <<"allocate", "engine", "url">>],
       [Resp(200, "artifact", "handler") EXCEPT !.url = out.rel])

\* makePublicPath(..) and runFfmpeg(args) up to the await
StartEngine(jr, out, args, id) ==
  [jr EXCEPT !.pc = "engine", !.out = out, !.args = args, !.outId = id,
             !.io.outs = @ + 1, !.io.engines = @ + 1,
             !.log = @ \o <<"allocate", "engine">>]


\* ------------------------------------------------------------------------
\* Engine argument vectors
\* ------------------------------------------------------------------------
\* the zoompan increment taken from the request's zoom_speed
ImageArgsZoom(r, imagePath, outPath) ==
  LET videoLength == NumberOr(r.body.length, 20)
      fps == NumberOr(r.body.frame_rate, 25)
      filter == <<"zoompan=z='min(zoom+">> \o ToStr(r.body.zoom_speed)
                \o <<",1.3)':d=">> \o NumToStr(fps)
                \o <<":x='iw/2-(iw/zoom/2)':y='ih/2-(ih/zoom/2)'", ",",
                     "scale=1080:1920", ",", "framerate=">> \o NumToStr(fps)
  IN  << <<"-loop">>, <<"1">>, <<"-i">>, PathStr(imagePath), <<"-t">>,
         NumToStr(videoLength), <<"-vf">>, filter, <<"-c:v">>, <<"libx264">>,
         <<"-pix_fmt">>, <<"yuv420p">>, PathStr(outPath) >>

ImageArgs(r, imagePath, outPath) ==
  LET videoLength == NumberOr(r.body.length, 20)
      fps == NumberOr(r.body.frame_rate, 25)
      filter == <<"zoompan=z='min(zoom+0.0008,1.3)':d=">> \o NumToStr(fps)
                \o <<":x='iw/2-(iw/zoom/2)':y='ih/2-(ih/zoom/2)'", ",",
                     "scale=1080:1920", ",", "framerate=">> \o NumToStr(fps)
  IN  << <<"-loop">>, <<"1">>, <<"-i">>, PathStr(imagePath), <<"-t">>,
         NumToStr(videoLength), <<"-vf">>, filter, <<"-c:v">>, <<"libx264">>,
         <<"-pix_fmt">>, <<"yuv420p">>, PathStr(outPath) >>

TrimArgs(r, videoPath, outPath) ==
  << <<"-ss">>,
     IF Truthy(r.body.start) THEN ToStr(r.body.start) ELSE <<"00", ":", "00", ":", "00">> >>
  \o (IF Truthy(r.body.end) THEN << <<"-to">>, ToStr(r.body.end) >> ELSE <<>>)
  \o << <<"-i">>, PathStr(videoPath), <<"-c">>, <<"copy">>, PathStr(outPath) >>

ComposeArgs(videoPath, audioPath, outPath) ==
  << <<"-i">>, PathStr(videoPath), <<"-i">>, PathStr(audioPath),
     <<"-map">>, <<"0:v:0">>, <<"-map">>, <<"1:a:0">>, <<"-c:v">>, <<"copy">>,
     <<"-c:a">>, <<"aac">>, <<"-shortest">>, PathStr(outPath) >>

ConcatArgs(tempListPath, outPath) ==
  << <<"-f">>, <<"concat">>, <<"-safe">>, <<"0">>, <<"-i">>, PathStr(tempListPath),
     <<"-c">>, <<"copy">>, PathStr(outPath) >>

RECURSIVE EscapeFirstQuote(_)
\* p.replace("'", "'\\''"): without the g flag only the first quote is replaced
EscapeFirstQuote(s) ==
  IF s = <<>> THEN <<>>
  ELSE IF Head(s) = "'" THEN <<"'", "\\", "'", "'">> \o Tail(s)
  ELSE <<Head(s)>> \o EscapeFirstQuote(Tail(s))

RECURSIVE EscapeQuotes(_)
\* p.replace(/'/g, "'\\''")
EscapeQuotes(s) ==
  IF s = <<>> THEN <<>>
  ELSE (IF Head(s) = "'" THEN <<"'", "\\", "'", "'">> ELSE <<Head(s)>>)
       \o EscapeQuotes(Tail(s))

\* `file '${...}'`
ManifestLine(p) == <<"file ", "'">> \o EscapeQuotes(PathStr(p)) \o <<"'">>

\* ------------------------------------------------------------------------
\* The handlers, cut at their awaits
\* ------------------------------------------------------------------------
\* id || null
IdOrNull(id) == IF Truthy(id) THEN id ELSE JNull

ImageEnter(r, jr, a) ==
  IF ~Truthy(r.body.image_url)
  THEN Send(jr, ErrorResp(400, "handler", "image_url is required"))
  ELSE DownloadToTemp([jr EXCEPT !.idx = 1], r.body.image_url, <<"image">>, a)

MetadataEnter(r, jr, a) ==
  IF ~Truthy(r.body.media_url)
  THEN Send(jr, ErrorResp(400, "handler", "media_url is required"))
  ELSE DownloadToTemp([jr EXCEPT !.idx = 1], r.body.media_url, <<"audio", "-", "meta">>, a)

TrimEnter(r, jr, a) ==
  IF ~Truthy(r.body.video_url)
  THEN Send(jr, ErrorResp(400, "handler", "video_url is required"))
  ELSE DownloadToTemp([jr EXCEPT !.idx = 1], r.body.video_url, <<"trim", "-", "in">>, a)

ComposeEnter(r, jr, a) ==
  LET inputs == r.body.inputs IN
  IF ~inputs.arr \/ Len(inputs.items) < 2
  THEN Send(jr, ErrorResp(400, "handler", "inputs[video, audio] required"))
  ELSE IF PropThrows(inputs.items[1]) \/ PropThrows(inputs.items[2]) THEN Throw(jr)
  ELSE LET videoInput == UrlProp(inputs.items[1])
           audioInput == UrlProp(inputs.items[2])
       IN  IF ~Truthy(videoInput) \/ ~Truthy(audioInput)
           THEN Send(jr, ErrorResp(400, "handler", "file_url missing in inputs"))
           ELSE DownloadToTemp([jr EXCEPT !.idx = 1], videoInput,
                               <<"compose", "-", "video">>, a)

\* after the loop: the 400 for an empty localPaths, else the manifest text
\* and the start of fsp.writeFile
ConcatAfterLoop(r, jr) ==
  IF jr.localPaths = <<>>
  THEN Send(jr, ErrorResp(400, "handler", "No valid video URLs"))
  ELSE [jr EXCEPT !.pc = "manifest",
                  !.listContent = [i \in 1..Len(jr.localPaths) |-> ManifestLine(jr.localPaths[i])],
                  !.io.writes = @ + 1,
                  !.log = Append(@, "manifest")]

RECURSIVE ConcatLoop(_, _, _, _)
\* for (const item of video_urls) from entry k on, up to the next await
ConcatLoop(r, jr, k, id) ==
  LET items == r.body.video_urls.items IN
  IF k > Len(items) THEN ConcatAfterLoop(r, jr)
  ELSE LET item == items[k] IN
       IF PropThrows(item) THEN Throw(jr)
       ELSE LET f == UrlProp(item)
                url == IF Truthy(f) THEN f ELSE item
            IN  IF ~Truthy(url) THEN ConcatLoop(r, jr, k + 1, id)
                ELSE DownloadToTemp([jr EXCEPT !.idx = k], url, <<"concat">>, id)

ConcatEnter(r, jr, a, b) ==
  LET video_urls == r.body.video_urls IN
  IF ~video_urls.arr \/ Len(video_urls.items) = 0
  THEN Send(jr, ErrorResp(400, "handler", "video_urls must be non-empty array"))
  ELSE ConcatLoop(r,
         [jr EXCEPT !.listPath = PathJoin(TMP_DIR, <<"concat", "-", a, ".", "txt">>),
                    !.listId = a],
         1, b)

CaptionEnter(r, jr) ==
  IF ~Truthy(r.body.video_url)
  THEN Send(jr, ErrorResp(400, "handler", "video_url is required"))
  ELSE Send(jr, [Resp(200, "caption", "handler") EXCEPT
                   !.url = ToStr(r.body.video_url), !.id = IdOrNull(r.body.id)])

\* the handler from its entry to its first await or its response
HandlerEnter(r, jr, a, b) ==
  TryCatch(r,
    CASE r.path = RouteImage -> ImageEnter(r, jr, a)
      [] r.path = RouteMetadata -> MetadataEnter(r, jr, a)
      [] r.path = RouteTrim -> TrimEnter(r, jr, a)
      [] r.path = RouteCompose -> ComposeEnter(r, jr, a)
      [] r.path = RouteConcat -> ConcatEnter(r, jr, a, b)
      [] r.path = RouteCaption -> CaptionEnter(r, jr)
      [] OTHER -> Send(jr, Resp(200, "status", "handler")))

\* localPaths.unshift(p): the newest download goes first
PushLocalFront(jr) ==
  [jr EXCEPT !.localPaths = <<jr.cur>> \o @, !.cur = <<>>,
             !.localIds = <<jr.curId>> \o @, !.curId = "",
             !.localUrls = <<jr.curUrl>> \o @, !.curUrl = <<>>,
             !.log = Append(@, "fetched")]

\* the awaited download resolved with its path: localPaths.push(p)
PushLocal(jr) ==
  [jr EXCEPT !.localPaths = Append(@, jr.cur), !.cur = <<>>,
             !.localIds = Append(@, jr.curId), !.curId = "",
             !.localUrls = Append(@, jr.curUrl), !.curUrl = <<>>,
             !.log = Append(@, "fetched")]

\* the handler from the resolution of a download to its next await
AfterDownload(r, jr0, a) ==
  LET jr == PushLocal(jr0)
      lp == jr.localPaths
  IN  TryCatch(r,
        CASE r.path = RouteImage ->
               LET out == MakePublicPath(<<"scene">>, Mp4, a)
               IN  StartEngine(jr, out, ImageArgs(r, lp[1], out.abs), a)
          [] r.path = RouteMetadata ->
               [jr EXCEPT !.pc = "probe", !.io.engines = @ + 1, !.log = Append(@, "probe")]
          [] r.path = RouteTrim ->
               LET out == MakePublicPath(<<"trim", "-", "out">>, Mp4, a)
               IN  StartEngine(jr, out, TrimArgs(r, lp[1], out.abs), a)
          [] r.path = RouteCompose ->
               IF jr.idx = 1
               THEN DownloadToTemp([jr EXCEPT !.idx = 2], UrlProp(r.body.inputs.items[2]),
                                   <<"compose", "-", "audio">>, a)
               ELSE LET out == MakePublicPath(<<"compose", "-", "out">>, Mp4, a)
                    IN  StartEngine(jr, out, ComposeArgs(lp[1], lp[2], out.abs), a)
          [] r.path = RouteConcat -> ConcatLoop(r, jr, jr.idx + 1, a))

\* the concatenate handler from the end of fsp.writeFile to runFfmpeg
AfterManifest(r, jr, a) ==
  LET id == r.body.id
      prefix == IF Truthy(id) THEN <<"concat", "-">> \o ToStr(id)
                ELSE <<"concat", "-", "out">>
      out == MakePublicPath(prefix, Mp4, a)
  IN  StartEngine(Log(jr, <<"manifested">>), out, ConcatArgs(jr.listPath, out.abs), a)

\* a transform handler after runFfmpeg resolved
ArtifactResp(r, jr) ==
  [Resp(200, "artifact", "handler") EXCEPT
     !.url = GetBaseUrl(r) \o jr.out.rel,
     !.id = IF r.path \in {RouteImage, RouteConcat} THEN IdOrNull(r.body.id) ELSE Undef]

\* Math.round of a duration given in 1/Scale seconds
Round(d) == (2 * d + Scale) \div (2 * Scale)

\* the minute field without the % 3600
FormatDurationNoRem(d) ==
  LET totalSeconds == Round(d)
      h == PadStart2(NumToStr(totalSeconds \div 3600))
      m == PadStart2(NumToStr(totalSeconds \div 60))
      s == PadStart2(NumToStr(JsRem(totalSeconds, 60)))
  IN  h \o <<":">> \o m \o <<":">> \o s

FormatDuration(d) ==
  LET totalSeconds == Round(d)
      h == PadStart2(NumToStr(totalSeconds \div 3600))
      m == PadStart2(NumToStr(JsRem(totalSeconds, 3600) \div 60))
      s == PadStart2(NumToStr(JsRem(totalSeconds, 60)))
  IN  h \o <<":">> \o m \o <<":">> \o s

SecondSamples == {0, 1, 59, 60, 3599, 3600, 359999, 360000}
DurationSamples ==
  {s * Scale + f : s \in SecondSamples, f \in 0..(Scale - 1)} \cup {-1, -(3 * Scale)}

\* what the ffprobe callback can receive
ProbeOutcomes ==
  {[kind |-> k, d |-> 0] : k \in {"error", "badjson", "noformat", "noduration", "nan"}}
  \cup {[kind |-> "ok", d |-> d] : d \in DurationSamples}

\* the metadata handler after runFfprobe settled
AfterProbe(r, jr0, o) ==
  LET jr == Log(jr0, <<IF o.kind \in {"error", "badjson", "noformat"} THEN "probeFailed" ELSE "probed">>) IN
  TryCatch(r,
    IF o.kind \in {"error", "badjson", "noformat"} THEN Throw(Fault(jr, "probe"))
    ELSE IF o.kind = "nan"
    THEN Send(jr, [Resp(200, "metadata", "handler") EXCEPT
                     !.nan = TRUE, !.formatted = <<"NaN", ":", "NaN", ":", "NaN">>])
    ELSE LET duration == IF o.kind = "noduration" THEN 0 ELSE o.d
         IN  Send(jr, [Resp(200, "metadata", "handler") EXCEPT
                         !.duration = duration, !.formatted = FormatDuration(duration)]))


\* ------------------------------------------------------------------------
\* Actions
\* ------------------------------------------------------------------------
SetJob(j, jr) == job' = [job EXCEPT ![j] = jr]

\* the directories that exist: __dirname and the two made at startup
ExistingDirs == {AppDir, PUBLIC_DIR, TMP_DIR}
ParentDir(p) == SubSeq(p, 1, Len(p) - 1)

\* execFileSync in place of execFile: while a child process runs, the event
\* loop is blocked and no callback of another job is called
RunnableSerial(j) ==
  /\ ~crashed
  /\ \A k \in Jobs \ {j} : job[k].pc \notin {"engine", "probe"}

\* the process is alive and the event loop calls job j's next callback:
\* every await returns to the loop, no job holds it while another waits
Runnable(j) == ~crashed

\* a POST arrives: the middleware stack, then the handler to its first await
Receive(j) ==
  /\ Runnable(j)
  /\ job[j].pc = "new"
  /\ LET d == Dispatch(req[j], files) IN
       \E a, b \in Ids :
         SetJob(j, IF d.by = "handler" THEN HandlerEnter(req[j], job[j], a, b)
                   ELSE Send(job[j], ErrorResp(d.status, d.by,
                                               IF d.by = "apikey" THEN "Unauthorized" ELSE "")))
  /\ UNCHANGED <<req, files, crashed, getResp>>

\* the write stream emits 'error' (the open failed) while axios is awaited:
\* no 'error' listener is attached yet, the exception is uncaught
WriterErrorBeforeResponse(j) ==
  /\ Runnable(j)
  /\ job[j].pc = "fetch"
  /\ crashed' = TRUE
  /\ SetJob(j, Fault(job[j], "write"))
  /\ UNCHANGED <<req, files, getResp>>

\* axios rejects: connection failure or a non-2xx status
AxiosRejects(j) ==
  /\ Runnable(j)
  /\ job[j].pc = "fetch"
  /\ SetJob(j, TryCatch(req[j], Throw(Log(Fault(job[j], "transport"), <<"fetchRejected">>))))
  /\ files' = files \cup {job[j].cur}
  /\ UNCHANGED <<req, crashed, getResp>>

\* axios resolves with the response stream; pipe and listeners are set up
AxiosResponds(j) ==
  /\ Runnable(j)
  /\ job[j].pc = "fetch"
  /\ SetJob(j, [job[j] EXCEPT !.pc = "stream"])
  /\ files' = files \cup {job[j].cur}
  /\ UNCHANGED <<req, crashed, getResp>>

\* writer 'finish': the download resolves and the handler goes on
StreamFinishes(j) ==
  /\ Runnable(j)
  /\ job[j].pc = "stream"
  /\ \E a \in Ids : SetJob(j, AfterDownload(req[j], job[j], a))
  /\ UNCHANGED <<req, files, crashed, getResp>>

\* writer 'error' after the listeners are attached: the download rejects
WriterErrorWhileStreaming(j) ==
  /\ Runnable(j)
  /\ job[j].pc = "stream"
  /\ SetJob(j, TryCatch(req[j], Throw(Log(Fault(job[j], "write"), <<"fetchRejected">>))))
  /\ UNCHANGED <<req, files, crashed, getResp>>

\* the response stream fails after it was piped: pipe forwards no error and
\* never ends the writer, so the promise stays pending; a runtime that emits
\* 'error' on the listener-less stream ends the process instead
TransportErrorWhileStreaming(j) ==
  /\ Runnable(j)
  /\ job[j].pc = "stream"
  /\ \/ SetJob(j, [Fault(job[j], "transport") EXCEPT !.pc = "hung"]) /\ UNCHANGED crashed
     \/ SetJob(j, Fault(job[j], "transport")) /\ crashed' = TRUE
  /\ UNCHANGED <<req, files, getResp>>

ManifestWritten(j) ==
  /\ Runnable(j)
  /\ job[j].pc = "manifest"
  /\ \E a \in Ids : SetJob(j, AfterManifest(req[j], job[j], a))
  /\ files' = files \cup {job[j].listPath}
  /\ UNCHANGED <<req, crashed, getResp>>

ManifestWriteFails(j) ==
  /\ Runnable(j)
  /\ job[j].pc = "manifest"
  /\ SetJob(j, TryCatch(req[j], Throw(Log(Fault(job[j], "write"), <<"manifestFailed">>))))
  /\ UNCHANGED <<req, files, crashed, getResp>>

\* ffmpeg exits 0 and has written its output
EngineSucceeds(j) ==
  /\ Runnable(j)
  /\ job[j].pc = "engine"
  /\ ParentDir(job[j].out.abs) \in ExistingDirs
  /\ LET jr == Log([job[j] EXCEPT !.engine = "ok"], <<"engineDone", "url">>)
     IN  SetJob(j, Send(jr, ArtifactResp(req[j], jr)))
  /\ files' = files \cup {job[j].out.abs}
  /\ UNCHANGED <<req, crashed, getResp>>

\* the execFile callback without its error branch: a failed run resolves
EngineFailsResolves(j) ==
  /\ Runnable(j)
  /\ job[j].pc = "engine"
  /\ LET jr == Log(Fault([job[j] EXCEPT !.engine = "failed"], "engine"), <<"engineDone", "url">>)
     IN  SetJob(j, Send(jr, ArtifactResp(req[j], jr)))
  /\ files' = files
  /\ UNCHANGED <<req, crashed, getResp>>

\* ffmpeg cannot be spawned or exits non-zero, with or without a partial file
EngineFails(j) ==
  /\ Runnable(j)
  /\ job[j].pc = "engine"
  /\ SetJob(j, TryCatch(req[j], Throw(Log(Fault([job[j] EXCEPT !.engine = "failed"], "engine"),
                                         <<"engineFailed">>))))
  /\ \/ files' = files
     \/ /\ ParentDir(job[j].out.abs) \in ExistingDirs
        /\ files' = files \cup {job[j].out.abs}
  /\ UNCHANGED <<req, crashed, getResp>>

ProbeReturns(j) ==
  /\ Runnable(j)
  /\ job[j].pc = "probe"
  /\ \E o \in ProbeOutcomes : SetJob(j, AfterProbe(req[j], job[j], o))
  /\ UNCHANGED <<req, files, crashed, getResp>>

NoGet ==
  [path |-> <<>>, key |-> NoHeader, by |-> "none", status |-> 0, ran |-> <<>>,
   file |-> <<>>, existed |-> FALSE]

\* the paths GET requests ask for: the liveness route, the published
\* locations of the jobs' outputs and a name that was never published
GetPaths ==
  {RouteRoot, FilesMount \o <<"/", "missing", ".", "mp4">>}
  \cup {job[j].out.rel : j \in {i \in Jobs : job[i].out # NoOut}}

\* the GET request of a behaviour; its handlers have no await
HttpGet ==
  /\ ~crashed
  /\ getResp = NoGet
  /\ \E path \in GetPaths, key \in Keys :
       LET r == Request("GET", path, key, "ok", EmptyBody)
           d == Dispatch(r, files)
       IN  getResp' = [path |-> path, key |-> key, by |-> d.by,
                       status |-> IF d.by = "handler" THEN 200 ELSE d.status,
                       ran |-> d.ran,
                       file |-> IF d.by = "static" THEN StaticTarget(path) ELSE <<>>,
                       existed |-> UnderFiles(path) /\ StaticTarget(path) \in files]
  /\ UNCHANGED <<req, job, files, crashed>>

Step(j) ==
  \/ Receive(j)
  \/ WriterErrorBeforeResponse(j)
  \/ AxiosRejects(j)
  \/ AxiosResponds(j)
  \/ StreamFinishes(j)
  \/ WriterErrorWhileStreaming(j)
  \/ TransportErrorWhileStreaming(j)
  \/ ManifestWritten(j)
  \/ ManifestWriteFails(j)
  \/ EngineSucceeds(j)
  \/ EngineFails(j)
  \/ ProbeReturns(j)

Next == (\E j \in Jobs : Step(j)) \/ HttpGet

\* one request with any of the sample bodies
Init ==
  /\ req \in {[j \in Jobs |-> IF j = 1 THEN r ELSE NoReq] : r \in JobRequests}
  /\ job = [j \in Jobs |-> IF j = 1 THEN NewJob ELSE IdleJob]
  /\ files = {}
  /\ crashed = FALSE
  /\ getResp = NoGet

Spec == Init /\ [][Next]_vars

\* two concurrent requests to one endpoint with identical bodies
PairRequests == {Request("POST", r, API_KEY, "ok", GoodBody(r)) : r \in JobRoutes}

InitPair ==
  /\ req \in {[j \in Jobs |-> r] : r \in PairRequests}
  /\ job = [j \in Jobs |-> NewJob]
  /\ files = {}
  /\ crashed = FALSE
  /\ getResp = NoGet

SpecPair == InitPair /\ [][Next]_vars

\* ImageToVideo bodies that set length, frame_rate, id and zoom_speed
ZoomSpeeds == {Undef, JNum(1), JNum(3), JStr(<<"fast">>)}
ZoomBodies ==
  {[EmptyBody EXCEPT !.image_url = JStr(UrlA), !.length = l, !.frame_rate = f,
                     !.id = i, !.zoom_speed = z] :
     l \in {Undef, JNum(5)}, f \in {Undef, JNum(30)}, i \in {Undef, JStr(<<"x">>)},
     z \in ZoomSpeeds}

\* the bodies are equal in every field but zoom_speed
SameButZoom(b, c) == [b EXCEPT !.zoom_speed = Undef] = [c EXCEPT !.zoom_speed = Undef]

\* two ImageToVideo requests whose bodies differ at most in zoom_speed
InitZoom ==
  /\ req \in {[j \in Jobs |-> Request("POST", RouteImage, API_KEY, "ok", p[j])] :
               p \in {q \in [Jobs -> ZoomBodies] : SameButZoom(q[1], q[2])}}
  /\ job = [j \in Jobs |-> NewJob]
  /\ files = {}
  /\ crashed = FALSE
  /\ getResp = NoGet

\* the steps an ImageToVideo job can take
ImageStep(j) ==
  \/ Receive(j)
  \/ WriterErrorBeforeResponse(j)
  \/ AxiosRejects(j)
  \/ AxiosResponds(j)
  \/ StreamFinishes(j)
  \/ WriterErrorWhileStreaming(j)
  \/ TransportErrorWhileStreaming(j)
  \/ EngineSucceeds(j)
  \/ EngineFails(j)

NextZoom == \E j \in Jobs : ImageStep(j)

SpecZoom == InitZoom /\ [][NextZoom]_vars

NextJobs == \E j \in Jobs : Step(j)

\* two concurrent jobs, each of which may stay at any await for any time
SpecStall == InitPair /\ [][NextJobs]_vars


\* ------------------------------------------------------------------------
\* Properties
\* ------------------------------------------------------------------------
Answered(j) == job[j].pc = "done"
Status(j) == job[j].resp[1].status

\* the request passes the body parser and the key check and reaches a handler
HandlerReached(j) ==
  req[j].method = "POST" /\ req[j].json = "ok" /\ req[j].key = API_KEY

NoIoDone(j) ==
  /\ job[j].io = NoIo
  /\ job[j].cur = <<>> /\ job[j].localPaths = <<>> /\ job[j].out = NoOut
  /\ job[j].engine = "none"

\* C1: a transform job's response carries an artifact URL only after its
\* engine invocation succeeded; after a failed invocation the job has exactly
\* one response, a 500 without URL, although its output path was allocated.
C1_ArtifactOnlyAfterEngineSuccess ==
  \A j \in Jobs :
    req[j].path \in TransformRoutes =>
      /\ \A i \in 1..Len(job[j].resp) :
           (job[j].resp[i].url # <<>> \/ job[j].resp[i].kind = "artifact")
             => job[j].engine = "ok"
      /\ job[j].engine = "failed" =>
           /\ job[j].out # NoOut
           /\ Len(job[j].resp) = 1
           /\ Status(j) = 500
           /\ job[j].resp[1].url = <<>>

C1_Witness ==
  \E j \in Jobs :
    /\ req[j].path \in TransformRoutes
    /\ job[j].engine = "failed"
    /\ job[j].out.abs \in files
    /\ Answered(j) /\ Status(j) = 500

Absent(v) == v.t \in {"undef", "null"} \/ (v.t = "str" /\ v.s = <<>>)
LacksUrlField(e) == ~(e.t = "obj" /\ e.s # <<>>)

MissingRequired(r) ==
  CASE r.path = RouteImage -> Absent(r.body.image_url)
    [] r.path = RouteMetadata -> Absent(r.body.media_url)
    [] r.path = RouteTrim -> Absent(r.body.video_url)
    [] r.path = RouteCaption -> Absent(r.body.video_url)
    [] r.path = RouteCompose ->
         \/ ~r.body.inputs.arr
         \/ Len(r.body.inputs.items) < 2
         \/ LacksUrlField(r.body.inputs.items[1])
         \/ LacksUrlField(r.body.inputs.items[2])
    [] r.path = RouteConcat ->
         ~r.body.video_urls.arr \/ Len(r.body.video_urls.items) = 0
    [] OTHER -> FALSE

\* C2: an authenticated request to a job endpoint whose required field is
\* missing is answered 400, and it starts no fetch, creates no temporary
\* file, allocates no output path and invokes no engine.
C2_MissingFieldAnswered400 ==
  \A j \in Jobs :
    (HandlerReached(j) /\ MissingRequired(req[j])) =>
      /\ NoIoDone(j)
      /\ Answered(j) => (Len(job[j].resp) = 1 /\ Status(j) = 400)

\* C3: a request to a route other than the static one whose x-api-key is
\* absent or wrong is answered 401 Unauthorized and no handler step runs.
C3_UnauthorizedAnswered401 ==
  /\ \A j \in Jobs :
       (req[j].method = "POST" /\ Unauthorized(req[j].key)) =>
         /\ NoIoDone(j)
         /\ Answered(j) =>
              /\ Len(job[j].resp) = 1
              /\ Status(j) = 401
              /\ job[j].resp[1].error = "Unauthorized"
  /\ (getResp.path = RouteRoot /\ Unauthorized(getResp.key)) => getResp.status = 401

Resolves(e) == (e.t = "str" /\ e.s # <<>>) \/ (e.t = "obj" /\ e.s # <<>>)
ResolvedCount(items) == Cardinality({i \in 1..Len(items) : Resolves(items[i])})

\* C4: in a Concatenate request with a non-empty array, entries that do not
\* resolve to a URL are skipped: with no failure of the network, the disk or
\* the engine the job answers 400 when no entry resolves and 200 otherwise,
\* and it downloads exactly the resolved entries.
C4_UnresolvedEntriesSkipped ==
  \A j \in Jobs :
    LET items == req[j].body.video_urls.items
        n == ResolvedCount(items)
    IN  (/\ HandlerReached(j) /\ req[j].path = RouteConcat
         /\ req[j].body.video_urls.arr /\ Len(items) > 0
         /\ job[j].fault = "none" /\ ~crashed) =>
          /\ Len(job[j].localPaths) <= n
          /\ job[j].pc \in {"manifest", "engine"} => Len(job[j].localPaths) = n
          /\ Answered(j) => Status(j) = (IF n = 0 THEN 400 ELSE 200)

\* C5: a Compose request whose inputs[0] or inputs[1] lacks a file_url is
\* answered 400, never 500; nothing is fetched and the engine is not invoked.
C5_ComposeMissingFileUrl400 ==
  \A j \in Jobs :
    LET items == req[j].body.inputs.items IN
    (/\ HandlerReached(j) /\ req[j].path = RouteCompose
     /\ req[j].body.inputs.arr /\ Len(items) >= 2
     /\ (LacksUrlField(items[1]) \/ LacksUrlField(items[2]))) =>
      /\ job[j].io.fetches = 0 /\ job[j].io.engines = 0
      /\ Answered(j) => Status(j) = 400

TempPaths(j) == job[j].localPaths \o (IF job[j].cur = <<>> THEN <<>> ELSE <<job[j].cur>>)
TempIds(j) == job[j].localIds \o (IF job[j].cur = <<>> THEN <<>> ELSE <<job[j].curId>>)
Succeeded(j) == Answered(j) /\ Status(j) = 200 /\ job[j].resp[1].kind = "artifact"

SamePair(j, k) == j # k /\ req[j] = req[k] /\ req[j].path \in TransformRoutes

\* C6 as stated: two concurrent identical requests that both succeed return
\* distinct artifact URLs and never use one temporary or public path.
C6_AlwaysDistinct ==
  \A j, k \in Jobs :
    (SamePair(j, k) /\ Succeeded(j) /\ Succeeded(k)) =>
      /\ job[j].resp[1].url # job[k].resp[1].url
      /\ job[j].out.abs # job[k].out.abs
      /\ \A a \in 1..Len(TempPaths(j)), b \in 1..Len(TempPaths(k)) :
           TempPaths(j)[a] # TempPaths(k)[b]

\* C6 amended: two concurrent identical requests use distinct public paths,
\* return distinct artifact URLs and use distinct temporary paths whenever
\* the random ids drawn for those names differ.
C6_DistinctWhenIdsDiffer ==
  \A j, k \in Jobs :
    SamePair(j, k) =>
      /\ (job[j].out # NoOut /\ job[k].out # NoOut /\ job[j].outId # job[k].outId) =>
           /\ job[j].out.abs # job[k].out.abs
           /\ job[j].out.rel # job[k].out.rel
           /\ (Succeeded(j) /\ Succeeded(k)) => job[j].resp[1].url # job[k].resp[1].url
      /\ \A a \in 1..Len(TempPaths(j)), b \in 1..Len(TempPaths(k)) :
           TempIds(j)[a] # TempIds(k)[b] => TempPaths(j)[a] # TempPaths(k)[b]
      /\ (job[j].listPath # <<>> /\ job[k].listPath # <<>> /\ job[j].listId # job[k].listId)
           => job[j].listPath # job[k].listPath

C6_Witness ==
  \E j, k \in Jobs :
    /\ SamePair(j, k) /\ Succeeded(j) /\ Succeeded(k)
    /\ job[j].outId # job[k].outId
    /\ job[j].resp[1].url # job[k].resp[1].url

\* C7: every authenticated job request ends with exactly one response, of
\* status 200, 400 or 500; every failure of a fetch, a file write, an engine
\* or a probe is answered 500 by the handler: none is left unanswered,
\* answered twice or thrown out of the handler.
C7_EveryFailureAnswered500 ==
  /\ ~crashed
  /\ \A j \in Jobs :
       /\ job[j].pc \notin {"hung", "escaped", "throw"}
       /\ Len(job[j].resp) <= 1
       /\ (HandlerReached(j) /\ Answered(j)) =>
            (Len(job[j].resp) = 1 /\ Status(j) \in {200, 400, 500})
       /\ job[j].fault # "none" => (Answered(j) /\ Status(j) = 500)

\* C8: every public path handed to the engine lies inside the served
\* directory, and the returned /files/<name> addresses exactly that file.
C8_OutputInsideServedDir ==
  \A j \in Jobs :
    job[j].out # NoOut =>
      /\ IsPrefix(PUBLIC_DIR, job[j].out.abs)
      /\ Len(job[j].out.abs) > Len(PUBLIC_DIR)
      /\ job[j].args[Len(job[j].args)] = PathStr(job[j].out.abs)
      /\ StaticTarget(job[j].out.rel) = job[j].out.abs

AllDigits(s) == \A i \in 1..Len(s) : IsDigit(s[i])

\* C9: a successful MediaMetadata response with a non-negative duration has
\* duration_formatted of the form H:M:S, minutes and seconds of two digits
\* within 00..59, hours of at least two digits, and the three fields add up
\* to the duration rounded to the nearest second.
C9_DurationFormatted ==
  \A j \in Jobs :
    (/\ req[j].path = RouteMetadata /\ Answered(j) /\ Status(j) = 200
     /\ ~job[j].resp[1].nan /\ job[j].resp[1].duration >= 0) =>
      LET f == Split(job[j].resp[1].formatted, ":")
          d == job[j].resp[1].duration
      IN  /\ Len(f) = 3
          /\ \A i \in 1..3 : AllDigits(f[i])
          /\ Len(f[1]) >= 2 /\ Len(f[2]) = 2 /\ Len(f[3]) = 2
          /\ StrToNat(f[2]) <= 59 /\ StrToNat(f[3]) <= 59
          /\ LET total == StrToNat(f[1]) * 3600 + StrToNat(f[2]) * 60 + StrToNat(f[3])
                 dist == IF Scale * total >= d THEN Scale * total - d ELSE d - Scale * total
             IN  2 * dist <= Scale

C9_Witness ==
  \E j \in Jobs :
    /\ req[j].path = RouteMetadata /\ Answered(j) /\ Status(j) = 200
    /\ job[j].resp[1].duration > 0
    /\ job[j].resp[1].duration % Scale # 0
    /\ Len(Split(job[j].resp[1].formatted, ":")[1]) >= 3

InSeq(x, q) == \E i \in 1..Len(q) : q[i] = x

\* C10: a GET under /files for an artifact that is on disk is served, with
\* or without the x-api-key header, and the key check never runs for a
\* request the static route answers.
C10_StaticServedWithoutKey ==
  /\ getResp.existed => (getResp.status = 200 /\ getResp.by = "static")
  /\ getResp.by = "static" => ~InSeq("apikey", getResp.ran)

C10_Witness ==
  /\ getResp.by = "static" /\ getResp.status = 200 /\ getResp.key = NoHeader
  /\ \E j \in Jobs : job[j].engine = "ok" /\ getResp.file = job[j].out.abs

\* the argument vector with the randomized input and output names blanked
MaskNames(args) ==
  [i \in 1..Len(args) |-> IF i \in {4, Len(args)} THEN <<"*">> ELSE args[i]]

ZoomPair(j, k) ==
  /\ j # k /\ req[j].path = RouteImage /\ req[k].path = RouteImage
  /\ SameButZoom(req[j].body, req[k].body)

\* C11: two ImageToVideo requests that differ only in zoom_speed hand the
\* engine the same argument vector up to the randomized input and output
\* file names (same filter, duration and frame rate), and when both succeed
\* their responses differ at most in the randomized name of the URL.
C11_ZoomSpeedIgnored ==
  \A j, k \in Jobs :
    ZoomPair(j, k) =>
      /\ (job[j].args # <<>> /\ job[k].args # <<>>) =>
           /\ MaskNames(job[j].args) = MaskNames(job[k].args)
           /\ job[j].args[4] = PathStr(job[j].localPaths[1])
           /\ job[j].args[Len(job[j].args)] = PathStr(job[j].out.abs)
      /\ (Succeeded(j) /\ Succeeded(k)) =>
           /\ [job[j].resp[1] EXCEPT !.url = <<>>] = [job[k].resp[1] EXCEPT !.url = <<>>]
           /\ job[j].outId = job[k].outId => job[j].resp[1].url = job[k].resp[1].url

C11_Witness ==
  \E j, k \in Jobs :
    /\ ZoomPair(j, k)
    /\ req[j].body.zoom_speed = JNum(1) /\ req[k].body.zoom_speed = JNum(3)
    /\ req[j].body.frame_rate = JNum(30) /\ req[j].body.length = JNum(5)
    /\ Succeeded(j) /\ Succeeded(k)
    /\ job[j].outId # job[k].outId

\* C12: every Caption request with a video_url is answered 200 with response
\* equal to the submitted video_url and id equal to the submitted id, null
\* when the id is absent; it fetches nothing, creates no temporary file and
\* no artifact and invokes no engine.
C12_CaptionEchoesUrlAndId ==
  \A j \in Jobs :
    (HandlerReached(j) /\ req[j].path = RouteCaption /\ ~Absent(req[j].body.video_url)) =>
      /\ NoIoDone(j)
      /\ job[j].pc \in {"new", "done"}
      /\ Answered(j) =>
           /\ Len(job[j].resp) = 1
           /\ Status(j) = 200
           /\ job[j].resp[1].url = req[j].body.video_url.s
           /\ job[j].resp[1].id =
                (IF req[j].body.id = Undef THEN JNull ELSE req[j].body.id)

\* the events that start a step, and the events that complete each of them
StartEvents == {"fetch", "manifest", "engine", "probe"}
Completions(e) ==
  CASE e = "fetch" -> {"fetched", "fetchRejected"}
    [] e = "manifest" -> {"manifested", "manifestFailed"}
    [] e = "engine" -> {"engineDone", "engineFailed"}
    [] e = "probe" -> {"probed", "probeFailed"}

\* a step that is not the last event of the log is followed by its completion
StepsComplete(L) ==
  \A i \in 1..(Len(L) - 1) : L[i] \in StartEvents => L[i + 1] \in Completions(L[i])

\* the stage of an event when publishing as a whole follows the engine
StageAsStated(e) ==
  CASE e \in {"fetch", "fetched", "fetchRejected"} -> 1
    [] e \in {"manifest", "manifested", "manifestFailed"} -> 2
    [] e \in {"engine", "engineDone", "engineFailed", "probe", "probed", "probeFailed"} -> 3
    [] e \in {"allocate", "url"} -> 4
    [] e = "respond" -> 5

\* the stage of an event when the allocation is a step before the engine
StageInCode(e) ==
  CASE e \in {"fetch", "fetched", "fetchRejected"} -> 1
    [] e \in {"manifest", "manifested", "manifestFailed"} -> 2
    [] e = "allocate" -> 3
    [] e \in {"engine", "engineDone", "engineFailed", "probe", "probed", "probeFailed"} -> 4
    [] e = "url" -> 5
    [] e = "respond" -> 6

\* C13 as stated: within every job the steps occur in the order fetch(es),
\* manifest build, engine invocation, publish (allocation of the output path
\* and computation of its URL), respond, and no step starts before the
\* preceding one has completed.
C13_PublishAfterEngine ==
  \A j \in Jobs :
    LET L == job[j].log IN
    /\ StepsComplete(L)
    /\ \A i \in 1..(Len(L) - 1) : StageAsStated(L[i]) <= StageAsStated(L[i + 1])

\* C13 amended: within every job the steps occur in the order fetch(es),
\* manifest build, allocation of the output path, engine invocation,
\* computation of the URL, respond; no step starts before the preceding one
\* has completed, and a 200 with an artifact follows a completed engine run.
C13_AllocateBeforeEngine ==
  \A j \in Jobs :
    LET L == job[j].log IN
    /\ StepsComplete(L)
    /\ \A i \in 1..(Len(L) - 1) : StageInCode(L[i]) <= StageInCode(L[i + 1])
    /\ \A i \in 1..Len(L) : L[i] = "url" => (i > 1 /\ L[i - 1] = "engineDone")
    /\ \A i \in 1..Len(L) : L[i] = "engine" => (i > 1 /\ L[i - 1] = "allocate")
    /\ Succeeded(j) => (Len(L) >= 2 /\ L[Len(L) - 1] = "url")

C13_Witness ==
  \E j \in Jobs :
    /\ req[j].path = RouteConcat /\ Succeeded(j)
    /\ job[j].log = <<"fetch", "fetched", "fetch", "fetched", "manifest", "manifested",
                      "allocate", "engine", "engineDone", "url", "respond">>

FetchEvents == {"fetch", "fetched", "fetchRejected"}

\* the last fetch event of a log, "none" when no fetch started
RECURSIVE LastFetchEvent(_)
LastFetchEvent(L) ==
  IF L = <<>> THEN "none"
  ELSE IF L[Len(L)] \in FetchEvents THEN L[Len(L)]
  ELSE LastFetchEvent(SubSeq(L, 1, Len(L) - 1))

\* a transport or write failure reached job j while a download was running
FetchFailed(j) ==
  /\ job[j].fault \in {"transport", "write"}
  /\ ~InSeq("manifest", job[j].log)

\* the URL of the job's only or first fetch cannot be parsed
FirstUrlUnparseable(j) ==
  /\ HandlerReached(j) /\ req[j].path \in {RouteImage, RouteMetadata, RouteTrim}
  /\ LET u == CASE req[j].path = RouteImage -> req[j].body.image_url
                 [] req[j].path = RouteMetadata -> req[j].body.media_url
                 [] OTHER -> req[j].body.video_url
     IN  Truthy(u) /\ ~UrlParses(ToStr(u))

\* C14: a fetch rejects when its URL cannot be parsed, when the transport
\* fails at any point, also after the body started streaming, and when the
\* local write fails at any point, also before the HTTP response arrives;
\* in none of these cases does it resolve with a path or stay pending.
C14_FetchFailureRejects ==
  \A j \in Jobs :
    /\ FetchFailed(j) => LastFetchEvent(job[j].log) = "fetchRejected"
    /\ (FirstUrlUnparseable(j) /\ job[j].pc # "new") =>
         LastFetchEvent(job[j].log) = "fetchRejected"

RECURSIVE ResolvedUrls(_)
\* the URLs of the entries that resolve, in array order
ResolvedUrls(items) ==
  IF items = <<>> THEN <<>>
  ELSE (IF Resolves(Head(items)) THEN <<Head(items).s>> ELSE <<>>)
       \o ResolvedUrls(Tail(items))

\* C15: the manifest of a Concatenate job has exactly one line per resolved
\* entry of video_urls, and line i names the temporary file downloaded from
\* the i-th resolved entry.
C15_ManifestInInputOrder ==
  \A j \in Jobs :
    (req[j].path = RouteConcat /\ job[j].listContent # <<>>) =>
      LET R == ResolvedUrls(req[j].body.video_urls.items)
          M == job[j].listContent
      IN  /\ Len(M) = Len(R)
          /\ Len(job[j].localPaths) = Len(R) /\ job[j].localUrls = R
          /\ \A i \in 1..Len(M) :
               /\ M[i] = ManifestLine(job[j].localPaths[i])
               /\ job[j].localPaths[i] \in files

C15_Witness ==
  \E j \in Jobs :
    /\ req[j].path = RouteConcat /\ Succeeded(j)
    /\ Len(job[j].listContent) = 2
    /\ job[j].localUrls = <<UrlB, UrlA>>
    /\ job[j].listContent[1] # job[j].listContent[2]

RECURSIVE GetToken(_, _, _)
\* the engine's reading of one token: outside quotes a backslash makes the
\* next character literal, a quote opens a quoted part and a space ends the
\* token; inside quotes every character is literal up to the closing quote
GetToken(s, quoted, acc) ==
  IF s = <<>> THEN [tok |-> acc, rest |-> <<>>, open |-> quoted]
  ELSE IF quoted
  THEN (IF Head(s) = "'" THEN GetToken(Tail(s), FALSE, acc)
        ELSE GetToken(Tail(s), TRUE, Append(acc, Head(s))))
  ELSE IF Head(s) = "'" THEN GetToken(Tail(s), TRUE, acc)
  ELSE IF Head(s) = "\\"
  THEN (IF Tail(s) = <<>> THEN [tok |-> acc, rest |-> <<>>, open |-> FALSE]
        ELSE GetToken(Tail(Tail(s)), FALSE, Append(acc, Head(Tail(s)))))
  ELSE IF Head(s) = " " THEN [tok |-> acc, rest |-> s, open |-> FALSE]
  ELSE GetToken(Tail(s), FALSE, Append(acc, Head(s)))

QuoteCount(s) == Cardinality({i \in 1..Len(s) : s[i] = "'"})

\* C16: every manifest line, also one for a temporary path with single
\* quotes, is the file directive followed by text that the engine's
\* single-quote rule reads back as exactly the original path, as one token
\* with every quote closed.
C16_ManifestLineRoundTrips ==
  \A j \in Jobs :
    \A i \in 1..Len(job[j].listContent) :
      LET line == job[j].listContent[i]
          d == GetToken(Tail(line), FALSE, <<>>)
      IN  /\ Head(line) = "file "
          /\ d.tok = PathStr(job[j].localPaths[i])
          /\ d.rest = <<>> /\ ~d.open

C16_Witness ==
  \E j \in Jobs :
    /\ Succeeded(j)
    /\ \E i \in 1..Len(job[j].listContent) :
         /\ QuoteCount(PathStr(job[j].localPaths[i])) >= 2
         /\ \E k \in 1..(Len(job[j].localPaths[i][3]) - 1) :
              job[j].localPaths[i][3][k] = "'" /\ job[j].localPaths[i][3][k + 1] = "'"
         /\ Len(job[j].listContent[i]) = Len(PathStr(job[j].localPaths[i])) + 3 + 3 * 2

\* job j waits at an await: a download, a disk write or a child process
Suspended(j) == job[j].pc \in {"fetch", "stream", "manifest", "engine", "probe", "hung"}

\* job j waits for an event of its own download, write or engine
Waiting(j) == job[j].pc \in {"fetch", "stream", "manifest", "engine", "probe"}

====
